---- MODULE Spec2Model ----
(***************************************************************************)
(* tinySearch (src/src/main.rs): the Lexer, the index build                *)
(* (tf_index_of_folder), index persistence (save_tf_index / check_index),  *)
(* the command dispatcher (entry / main) and the HTTP request handler      *)
(* (serve_request).                                                        *)
(*                                                                         *)
(* A char is modelled by its Unicode code point; a string or a &[char]     *)
(* slice is a sequence of code points.                                     *)
(***************************************************************************)
EXTENDS Integers, Sequences, FiniteSets, TLC

\* ------------------------------------------------------------------ bounds

\* Longest input handed to a Lexer in the lexer specification.
MaxLen == 4
\* Calls of next_token made after the first None.
MaxExtraCalls == 2

\* ------------------------------------------------------- character classes
\* char::is_whitespace, char::is_numeric, char::is_alphabetic and
\* char::to_ascii_uppercase of the Rust standard library, on the code points
\* the model uses:
\*   9 TAB, 10 LF, 32 SPACE                    White_Space
\*   48..57 '0'..'9'                           Nd
\*   65..90 'A'..'Z', 97..122 'a'..'z'         Alphabetic
\*   201 'É' (U+00C9), 233 'é' (U+00E9)        Alphabetic, not ASCII
\*   8551 'Ⅷ' (U+2167 ROMAN NUMERAL EIGHT)     Nl: numeric AND Alphabetic
\*   34 '"', 46 '.', 92 '\'                    none of the three

\* The code points of the model, by class.
Whitespace == {9, 10, 32}

Numeric == (48..57) \cup {8551}

Alphabetic == (65..90) \cup (97..122) \cup {201, 233, 8551}

IsWhitespace(c) == c \in Whitespace

IsNumeric(c) == c \in Numeric

IsAlphabetic(c) == c \in Alphabetic

\* ------------------------------------------------------------------- Lexer

\* TrimLeft with a fault: `if` for `while`: drops one whitespace character only.
TrimLeftOnce(s) ==
    IF Len(s) > 0 /\ IsWhitespace(s[1]) THEN Tail(s) ELSE s

RECURSIVE TrimLeft(_)
\* Lexer::trim_left: the content with its leading whitespace dropped.
TrimLeft(s) ==
    IF Len(s) > 0 /\ IsWhitespace(s[1]) THEN TrimLeft(Tail(s)) ELSE s

\* Chop with a fault: the token is returned but the content is not advanced.
ChopNoAdvance(s, n) ==
    [token |-> SubSeq(s, 1, n), rest |-> s]

\* Lexer::chop: the first n characters as the token, the content advanced by n.
Chop(s, n) ==
    [token |-> SubSeq(s, 1, n), rest |-> SubSeq(s, n + 1, Len(s))]

RECURSIVE ChopWhileIdxShort(_, _, _)
\* ChopWhileIdx with a fault: the scan stops after two characters.
ChopWhileIdxShort(s, idx, P) ==
    IF idx < Len(s) /\ idx < 2 /\ s[idx + 1] \in P
    THEN ChopWhileIdxShort(s, idx + 1, P)
    ELSE idx

RECURSIVE ChopWhileIdx(_, _, _)
\* The loop of Lexer::chop_while: the index reached from idx while the
\* predicate holds (content[idx] is s[idx + 1] here; the predicate is given
\* as the set P of the characters satisfying it).
ChopWhileIdx(s, idx, P) ==
    IF idx < Len(s) /\ s[idx + 1] \in P
    THEN ChopWhileIdx(s, idx + 1, P)
    ELSE idx

\* Lexer::chop_while.
ChopWhile(s, P) == Chop(s, ChopWhileIdx(s, 0, P))

\* Lexer::next_token on content s: some = FALSE is None.
NextTokenOf(s) ==
    LET t == TrimLeft(s) IN
    IF Len(t) = 0 THEN [some |-> FALSE, token |-> <<>>, rest |-> t]
    ELSE LET r == IF IsNumeric(t[1]) THEN ChopWhile(t, Numeric)
                  ELSE IF IsAlphabetic(t[1]) THEN ChopWhile(t, Alphabetic)
                  ELSE Chop(t, 1)
         IN [some |-> TRUE, token |-> r.token, rest |-> r.rest]

RECURSIVE LexAll(_)
\* `for token in Lexer::new(&content)`: Iterator::next until None.
LexAll(s) ==
    LET r == NextTokenOf(s) IN
    IF r.some THEN <<r.token>> \o LexAll(r.rest) ELSE <<>>

\* ------------------------------------------------------------ maps, helpers

\* TermFreq::new() / TermFreqIndex::new(): the empty HashMap.
EmptyMap == <<>>

\* HashMap::insert: the map with key k bound to v (an older binding replaced).
Insert(m, k, v) == [x \in DOMAIN m \cup {k} |-> IF x = k THEN v ELSE m[x]]

RECURSIVE SetToSeq(_)
SetToSeq(S) ==
    IF S = {} THEN <<>>
    ELSE LET x == CHOOSE y \in S : TRUE IN <<x>> \o SetToSeq(S \ {x})

Reverse(s) == [i \in DOMAIN s |-> s[Len(s) + 1 - i]]

\* The hasher states (RandomState) a HashMap is iterated under.
Seeds == {0, 1}

\* The keys of HashMap m in the order its iterator yields them under a seed:
\* the order is unspecified, and differs from seed to seed.
KeysInOrder(m, seed) ==
    IF seed = 0 THEN SetToSeq(DOMAIN m) ELSE Reverse(SetToSeq(DOMAIN m))

RECURSIVE SumSeq(_)
SumSeq(s) == IF s = <<>> THEN 0 ELSE Head(s) + SumSeq(Tail(s))

\* The sum of the values of a map to numbers.
SumValues(m) == LET ks == SetToSeq(DOMAIN m) IN SumSeq([i \in DOMAIN ks |-> m[ks[i]]])

\* ----------------------------------------------------- the frequency table

\* ToAsciiUppercase with a fault: no case folding.
ToAsciiUppercaseId(c) == c

\* char::to_ascii_uppercase: 'a'..'z' to 'A'..'Z', every other char unchanged.
ToAsciiUppercase(c) == IF c \in 97..122 THEN c - 32 ELSE c

\* token.iter().map(|x| x.to_ascii_uppercase()).collect::<String>()
TermOf(token) == [i \in DOMAIN token |-> ToAsciiUppercase(token[i])]

\* Count with a fault: a term already in the table keeps its count.
CountNoIncrement(tf, term) ==
    IF term \in DOMAIN tf THEN tf ELSE Insert(tf, term, 1)

\* The body of the token loop: *freq += 1 for a term of the table, else
\* tf.insert(term, 1).
Count(tf, term) ==
    IF term \in DOMAIN tf THEN [tf EXCEPT ![term] = @ + 1] ELSE Insert(tf, term, 1)

RECURSIVE CountAll(_, _)
CountAll(tf, tokens) ==
    IF tokens = <<>> THEN tf
    ELSE CountAll(Count(tf, TermOf(Head(tokens))), Tail(tokens))

\* The TermFreq built from a document's content.
TermFreqOf(text) == CountAll(EmptyMap, LexAll(text))

\* --------------------------------------------------------- text extraction
\* A document on disk, as parse_entire_xml_file sees it: whether File::open
\* succeeds, and the events the XML EventReader yields: "chars" is
\* XmlEvent::Characters(text), "other" any other event, "err" an Err.

RECURSIVE ReadEvents(_, _)
\* The event loop of parse_entire_xml_file: the content pushed so far.
ReadEvents(events, text) ==
    IF events = <<>> THEN [ok |-> TRUE, content |-> text]
    ELSE LET e == Head(events) IN
         IF e.kind = "err" THEN [ok |-> FALSE, content |-> <<>>]
         ELSE IF e.kind = "chars"
              THEN ReadEvents(Tail(events), text \o e.text \o <<32>>)
              ELSE ReadEvents(Tail(events), text)

\* parse_entire_xml_file: ok = FALSE is Err(()).
ParseEntireXmlFile(doc) ==
    IF ~doc.open THEN [ok |-> FALSE, content |-> <<>>]
    ELSE ReadEvents(doc.events, <<>>)

\* IndexDocument with a fault: an extraction failure is propagated as `?` would.
IndexDocumentAbort(index, path, doc) ==
    LET r == ParseEntireXmlFile(doc) IN
    IF r.ok THEN [abort |-> FALSE, indexed |-> TRUE,
                  index |-> Insert(index, path, TermFreqOf(r.content))]
    ELSE [abort |-> TRUE, indexed |-> FALSE, index |-> index]

\* The body of the 'next_file loop for a regular file: the index after it,
\* and whether the walk is aborted.
IndexDocument(index, path, doc) ==
    LET r == ParseEntireXmlFile(doc) IN
    IF r.ok THEN [abort |-> FALSE, indexed |-> TRUE,
                  index |-> Insert(index, path, TermFreqOf(r.content))]
    ELSE [abort |-> FALSE, indexed |-> FALSE, index |-> index]

Chr(text) == [kind |-> "chars", text |-> text]

Other == [kind |-> "other", text |-> <<>>]

XmlErr == [kind |-> "err", text |-> <<>>]

\* The documents the corpus may hold.
XmlDocs ==
    { [open |-> TRUE,  events |-> <<Other, Chr(<<97, 32, 65>>), Other>>],      \* a A
      [open |-> TRUE,  events |-> <<Chr(<<103, 108, 52>>), Chr(<<233, 32, 201>>)>>], \* gl4, é É
      [open |-> TRUE,  events |-> <<Chr(<<34, 92, 46, 34>>)>>],                 \* "\."
      [open |-> TRUE,  events |-> <<Other>>],                                   \* no text
      [open |-> TRUE,  events |-> <<Chr(<<97>>), XmlErr>>],                     \* malformed
      [open |-> FALSE, events |-> <<>>] }                                       \* unreadable

\* ------------------------------------------------------------- persistence
\* serde_json's compact encoding of HashMap<PathBuf, HashMap<String, usize>>,
\* character by character: 123 '{', 125 '}', 58 ':', 44 ',', 34 '"',
\* 92 '\', 110 'n', 116 't'.

RECURSIVE Digits(_)
\* usize as decimal digits.
Digits(n) == IF n < 10 THEN <<48 + n>> ELSE Digits(n \div 10) \o <<48 + (n % 10)>>

RECURSIVE EscapeNoQuote(_)
\* Escape with a fault: '"' is written unescaped.
EscapeNoQuote(s) ==
    IF s = <<>> THEN <<>>
    ELSE LET c == Head(s) IN
         (IF c = 92 THEN <<92, 92>>
          ELSE IF c = 10 THEN <<92, 110>>
          ELSE IF c = 9 THEN <<92, 116>>
          ELSE <<c>>) \o EscapeNoQuote(Tail(s))

RECURSIVE Escape(_)
\* The body of a JSON string: '"', '\', LF and TAB escaped.
Escape(s) ==
    IF s = <<>> THEN <<>>
    ELSE LET c == Head(s) IN
         (IF c = 34 THEN <<92, 34>>
          ELSE IF c = 92 THEN <<92, 92>>
          ELSE IF c = 10 THEN <<92, 110>>
          ELSE IF c = 9 THEN <<92, 116>>
          ELSE <<c>>) \o Escape(Tail(s))

SerStr(s) == <<34>> \o Escape(s) \o <<34>>

RECURSIVE JoinComma(_)
\* The members of an object, joined by ','.
JoinComma(ms) ==
    IF ms = <<>> THEN <<>>
    ELSE IF Len(ms) = 1 THEN Head(ms)
    ELSE Head(ms) \o <<44>> \o JoinComma(Tail(ms))

\* A TermFreq as a JSON object: "term":count members in iteration order.
SerTermFreq(tf, seed) ==
    LET ks == KeysInOrder(tf, seed) IN
    <<123>>
    \o JoinComma([i \in DOMAIN ks |-> SerStr(ks[i]) \o <<58>> \o Digits(tf[ks[i]])])
    \o <<125>>

\* serde_json::to_writer(index_file, &tf_index): the bytes written.
SerIndex(index, seed) ==
    LET ks == KeysInOrder(index, seed) IN
    <<123>>
    \o JoinComma([i \in DOMAIN ks |->
                    SerStr(ks[i]) \o <<58>> \o SerTermFreq(index[ks[i]], seed)])
    \o <<125>>

\* ---- serde_json::from_reader::<TermFreqIndex>: a parse result is
\* [ok, val, pos]: pos is the index of the first character not consumed.

Fail == [ok |-> FALSE, val |-> <<>>, pos |-> 0]

At(f, p) == IF p \in DOMAIN f THEN f[p] ELSE 0

RECURSIVE ParseStrBody(_, _, _)
\* The characters of a string from p up to its closing '"', unescaped.
ParseStrBody(f, p, acc) ==
    IF p > Len(f) THEN Fail
    ELSE IF f[p] = 34 THEN [ok |-> TRUE, val |-> acc, pos |-> p + 1]
    ELSE IF f[p] = 92
         THEN LET e == At(f, p + 1) IN
              IF e = 34 THEN ParseStrBody(f, p + 2, Append(acc, 34))
              ELSE IF e = 92 THEN ParseStrBody(f, p + 2, Append(acc, 92))
              ELSE IF e = 110 THEN ParseStrBody(f, p + 2, Append(acc, 10))
              ELSE IF e = 116 THEN ParseStrBody(f, p + 2, Append(acc, 9))
              ELSE Fail
    ELSE IF f[p] \in {9, 10} THEN Fail
    ELSE ParseStrBody(f, p + 1, Append(acc, f[p]))

\* A JSON string at p (a String, or a PathBuf, key).
ParseStr(f, p) == IF At(f, p) = 34 THEN ParseStrBody(f, p + 1, <<>>) ELSE Fail

RECURSIVE ParseDigits(_, _, _)
ParseDigits(f, p, acc) ==
    IF At(f, p) \in 48..57 THEN ParseDigits(f, p + 1, acc * 10 + (f[p] - 48))
    ELSE [ok |-> TRUE, val |-> acc, pos |-> p]

\* A usize at p: one or more digits, no leading zero before another digit.
ParseNum(f, p) ==
    IF At(f, p) \notin 48..57 THEN Fail
    ELSE IF f[p] = 48 /\ At(f, p + 1) \in 48..57 THEN Fail
    ELSE ParseDigits(f, p, 0)

RECURSIVE ParseTermFreqMembers(_, _, _)
\* The members of a TermFreq object from p, inserted into acc.
ParseTermFreqMembers(f, p, acc) ==
    LET k == ParseStr(f, p) IN
    IF ~k.ok \/ At(f, k.pos) # 58 THEN Fail
    ELSE LET v == ParseNum(f, k.pos + 1) IN
         IF ~v.ok THEN Fail
         ELSE LET m == Insert(acc, k.val, v.val) IN
              IF At(f, v.pos) = 44 THEN ParseTermFreqMembers(f, v.pos + 1, m)
              ELSE IF At(f, v.pos) = 125 THEN [ok |-> TRUE, val |-> m, pos |-> v.pos + 1]
              ELSE Fail

ParseTermFreq(f, p) ==
    IF At(f, p) # 123 THEN Fail
    ELSE IF At(f, p + 1) = 125 THEN [ok |-> TRUE, val |-> EmptyMap, pos |-> p + 2]
    ELSE ParseTermFreqMembers(f, p + 1, EmptyMap)

RECURSIVE ParseIndexMembers(_, _, _)
ParseIndexMembers(f, p, acc) ==
    LET k == ParseStr(f, p) IN
    IF ~k.ok \/ At(f, k.pos) # 58 THEN Fail
    ELSE LET v == ParseTermFreq(f, k.pos + 1) IN
         IF ~v.ok THEN Fail
         ELSE LET m == Insert(acc, k.val, v.val) IN
              IF At(f, v.pos) = 44 THEN ParseIndexMembers(f, v.pos + 1, m)
              ELSE IF At(f, v.pos) = 125 THEN [ok |-> TRUE, val |-> m, pos |-> v.pos + 1]
              ELSE Fail

\* serde_json::from_reader: the whole stream is one TermFreqIndex object,
\* with nothing after it.
ParseIndex(f) ==
    LET r == IF At(f, 1) # 123 THEN Fail
             ELSE IF At(f, 2) = 125 THEN [ok |-> TRUE, val |-> EmptyMap, pos |-> 3]
             ELSE ParseIndexMembers(f, 2, EmptyMap)
    IN IF r.ok /\ r.pos = Len(f) + 1 THEN [ok |-> TRUE, val |-> r.val] 
       ELSE [ok |-> FALSE, val |-> EmptyMap]

\* ------------------------------------------------------------------- state

\* Directory entries read_dir may yield in one index build.
MaxEntries == 3
\* Requests the server takes from incoming_requests().
MaxRequests == 2

VARIABLES
    input,      \* the slice the Lexer was constructed on (Lexer::new)
    content,    \* Lexer.content: the part not yet consumed
    yielded,    \* the calls that returned Some: token, content before and after
    retLog,     \* what each call of next_token returned: "Some" or "None"
    args,       \* env::args() after the program name, of the running process
    pc,         \* where the running process is: entry, walk, save, check,
                \* serve, exited
    exits,      \* the ExitCode of each process that has ended, in order
    stack,      \* the active calls of tf_index_of_folder: the directory of
                \* each and the number of entries its iterator has yielded
    tf_index,   \* the TermFreqIndex entry() builds
    visited,    \* directory entries yielded so far in this build
    walkRes,    \* what the outermost tf_index_of_folder returned
    extracted,  \* path -> content, for each file parse_entire_xml_file read
    skipped,    \* the files parse_entire_xml_file failed on
    enumFailed, \* read_dir, a directory entry or file_type() has failed
    saveRes,    \* what save_tf_index returned
    indexFile,  \* index.json on disk
    loadRes,    \* what check_index returned
    loaded,     \* the TermFreqIndex check_index deserialized
    served      \* the requests serve_request has handled, with its answers

lexVars == <<input, content, yielded, retLog>>

procVars == <<args, pc, exits>>

walkVars == <<stack, tf_index, visited, walkRes, extracted, skipped, enumFailed>>

fileVars == <<saveRes, indexFile, loadRes, loaded>>

vars == <<input, content, yielded, retLog, args, pc, exits, stack, tf_index,
          visited, walkRes, extracted, skipped, enumFailed, saveRes, indexFile,
          loadRes, loaded, served>>

NoFile == [exists |-> FALSE, bytes |-> <<>>]

\* No Lexer, no process, nothing on disk.
IdleLexer == input = <<>> /\ content = <<>> /\ yielded = <<>> /\ retLog = <<>>

IdleWalk ==
    /\ stack = <<>> /\ tf_index = EmptyMap /\ visited = 0 /\ walkRes = "none"
    /\ extracted = EmptyMap /\ skipped = {} /\ enumFailed = FALSE

IdleFile == saveRes = "none" /\ loadRes = "none" /\ loaded = EmptyMap

IdleProc == args = <<>> /\ pc = "idle" /\ exits = <<>>

\* ------------------------------------------------------ the Lexer, stepwise

\* The code points Lexer inputs are drawn from.
LexChars == {32, 55, 97, 8551, 46}

RECURSIVE SeqsUpTo(_, _)
SeqsUpTo(S, n) ==
    IF n = 0 THEN {<<>>}
    ELSE LET shorter == SeqsUpTo(S, n - 1) IN
         shorter \cup {Append(s, c) : s \in {x \in shorter : Len(x) = n - 1}, c \in S}

NoneCount == Cardinality({i \in DOMAIN retLog : retLog[i] = "None"})

\* Lexer::new on any input of at most MaxLen characters.
InitLexer ==
    /\ input \in SeqsUpTo(LexChars, MaxLen)
    /\ content = input
    /\ yielded = <<>>
    /\ retLog = <<>>
    /\ IdleProc /\ IdleWalk /\ IdleFile
    /\ indexFile = NoFile
    /\ served = <<>>

\* One call of Lexer::next_token (Iterator::next).
NextToken ==
    /\ NoneCount <= MaxExtraCalls
    /\ LET r == NextTokenOf(content) IN
       /\ content' = r.rest
       /\ retLog' = Append(retLog, IF r.some THEN "Some" ELSE "None")
       /\ yielded' = IF r.some
                     THEN Append(yielded, [token |-> r.token, before |-> content,
                                           rest |-> r.rest])
                     ELSE yielded
    /\ UNCHANGED <<input, procVars, walkVars, fileVars, served>>

NextLexer == NextToken

SpecLexer == InitLexer /\ [][NextLexer]_vars

\* ------------------------------------------------------ commands: index

\* "index", "search", "serve", a word that is no subcommand, a directory "d",
\* the index file "index.json", as opaque words.
IndexArgs == {<<>>, <<"index">>, <<"index", "d">>, <<"frobnicate">>}

SearchArgs == {<<"search">>, <<"search", "index.json">>}

ServeArgs == {<<"serve">>, <<"serve", "0.0.0.0:80">>}

\* The corpus root given on the command line: "d".
RootPath == <<100>>

\* The name of the n-th entry a directory yields: 'a', '"', 'c', 'd', ...
NameOf(n) == IF n = 2 THEN <<34>> ELSE <<96 + n>>

\* file.path(): the directory's path, '/', the entry's name.
PathOf(frame) == frame.path \o <<47>> \o NameOf(frame.n + 1)

Top == stack[Len(stack)]

Pop == SubSeq(stack, 1, Len(stack) - 1)

\* The top frame with one more entry yielded.
Advanced == [stack EXCEPT ![Len(stack)].n = @ + 1]

\* entry() up to the first fallible call of the subcommand, and main() where
\* entry() returns at once.  read_dir of the corpus root is the first
\* statement of tf_index_of_folder.
Entry ==
    /\ pc = "entry"
    /\ UNCHANGED <<lexVars, args, indexFile, loaded, served>>
    /\ IF args = <<>> \/ args[1] \notin {"index", "search", "serve"} \/
          (args[1] \in {"index", "search"} /\ Len(args) < 2)
       THEN \* ok_or_else(..)? and the `_` arm: Err(()), ExitCode::FAILURE
            /\ pc' = "exited"
            /\ exits' = Append(exits, "FAILURE")
            /\ UNCHANGED <<walkVars, saveRes, loadRes>>
       ELSE IF args[1] = "index"
       THEN /\ tf_index' = EmptyMap
            /\ visited' = 0
            /\ extracted' = EmptyMap
            /\ skipped' = {}
            /\ saveRes' = "none"
            /\ UNCHANGED <<exits, loadRes>>
            /\ \E readable \in BOOLEAN :
                 IF readable
                 THEN /\ stack' = <<[path |-> RootPath, n |-> 0]>>
                      /\ walkRes' = "none"
                      /\ enumFailed' = FALSE
                      /\ pc' = "walk"
                 ELSE /\ stack' = <<>>
                      /\ walkRes' = "Err"
                      /\ enumFailed' = TRUE
                      /\ pc' = "save"
       ELSE IF args[1] = "search"
       THEN /\ pc' = "check"
            /\ loadRes' = "none"
            /\ UNCHANGED <<exits, walkVars, saveRes>>
       ELSE \* "serve": Server::http(&address) may fail
            /\ UNCHANGED <<walkVars, saveRes, loadRes>>
            /\ \E bound \in BOOLEAN :
                 IF bound
                 THEN pc' = "serve" /\ UNCHANGED exits
                 ELSE pc' = "exited" /\ exits' = Append(exits, "FAILURE")

\* tf_index_of_folder: the directory iterator is exhausted, Ok(()).
WalkEnd ==
    /\ pc = "walk"
    /\ stack' = Pop
    /\ IF Len(stack) = 1
       THEN walkRes' = "Ok" /\ pc' = "save"
       ELSE UNCHANGED <<walkRes, pc>>
    /\ UNCHANGED <<lexVars, args, exits, tf_index, visited, extracted, skipped,
                   enumFailed, fileVars, served>>

\* tf_index_of_folder: the iterator yields an Err, or file_type() fails: `?`
\* returns Err(()) from this call and, through the `?` of the recursive
\* call, from every caller.
WalkEntryError ==
    /\ pc = "walk"
    /\ visited < MaxEntries
    /\ visited' = visited + 1
    /\ stack' = <<>>
    /\ walkRes' = "Err"
    /\ enumFailed' = TRUE
    /\ pc' = "save"
    /\ UNCHANGED <<lexVars, args, exits, tf_index, extracted, skipped, fileVars,
                   served>>

\* tf_index_of_folder: the entry is a directory: the recursive call, whose
\* read_dir may fail.
WalkSubdir ==
    /\ pc = "walk"
    /\ visited < MaxEntries
    /\ visited' = visited + 1
    /\ \E readable \in BOOLEAN :
         IF readable
         THEN /\ stack' = Append(Advanced, [path |-> PathOf(Top), n |-> 0])
              /\ UNCHANGED <<walkRes, enumFailed, pc>>
         ELSE /\ stack' = <<>>
              /\ walkRes' = "Err"
              /\ enumFailed' = TRUE
              /\ pc' = "save"
    /\ UNCHANGED <<lexVars, args, exits, tf_index, extracted, skipped, fileVars,
                   served>>

\* tf_index_of_folder: the entry is a file: extraction, the token loop,
\* tf_index.insert.
WalkFile ==
    /\ pc = "walk"
    /\ visited < MaxEntries
    /\ visited' = visited + 1
    /\ \E doc \in XmlDocs :
         LET path == PathOf(Top)
             text == ParseEntireXmlFile(doc)
             r == IndexDocument(tf_index, path, doc)
         IN /\ tf_index' = r.index
            /\ extracted' = IF text.ok THEN Insert(extracted, path, text.content)
                            ELSE extracted
            /\ skipped' = IF text.ok THEN skipped ELSE skipped \cup {path}
            /\ IF r.abort
               THEN stack' = <<>> /\ walkRes' = "Err" /\ pc' = "save"
               ELSE stack' = Advanced /\ UNCHANGED <<walkRes, pc>>
    /\ UNCHANGED <<lexVars, args, exits, enumFailed, fileVars, served>>

\* Where a failed write may leave the file: after none, half or all but one
\* of the bytes.
Cuts(bytes) == {0, Len(bytes) \div 2, Len(bytes) - 1}

\* entry(), "index" arm after the walk: the result of tf_index_of_folder is
\* dropped, save_tf_index is called, its result is dropped, entry returns
\* Ok(()) and main ExitCode::SUCCESS.
SaveTfIndex ==
    /\ pc = "save"
    /\ \E outcome \in {"create_err", "write_err", "ok"}, seed \in Seeds :
         LET bytes == SerIndex(tf_index, seed) IN
         CASE outcome = "create_err" ->
                /\ saveRes' = "Err"
                /\ UNCHANGED indexFile
           [] outcome = "write_err" ->
                /\ saveRes' = "Err"
                /\ \E k \in Cuts(bytes) :
                     indexFile' = [exists |-> TRUE, bytes |-> SubSeq(bytes, 1, k)]
           [] outcome = "ok" ->
                /\ saveRes' = "Ok"
                /\ indexFile' = [exists |-> TRUE, bytes |-> bytes]
    /\ pc' = "exited"
    /\ exits' = Append(exits, "SUCCESS")
    /\ UNCHANGED <<lexVars, args, walkVars, loadRes, loaded, served>>

\* entry(), "search" arm: check_index is called, its result is dropped,
\* entry returns Ok(()) and main ExitCode::SUCCESS.
CheckIndex ==
    /\ pc = "check"
    /\ \E opens \in BOOLEAN :
         IF ~(opens /\ indexFile.exists)
         THEN loadRes' = "Err" /\ UNCHANGED loaded
         ELSE LET r == ParseIndex(indexFile.bytes) IN
              IF r.ok THEN loadRes' = "Ok" /\ loaded' = r.val
              ELSE loadRes' = "Err" /\ UNCHANGED loaded
    /\ pc' = "exited"
    /\ exits' = Append(exits, "SUCCESS")
    /\ UNCHANGED <<lexVars, args, walkVars, saveRes, indexFile, served>>

\* After the index command has ended, the search command is run.
RunSearch ==
    /\ pc = "exited"
    /\ Len(exits) = 1
    /\ args' \in SearchArgs
    /\ pc' = "entry"
    /\ UNCHANGED <<lexVars, exits, walkVars, fileVars, served>>

\* The index command is started, index.json not existing yet.
InitIndex ==
    /\ IdleLexer /\ IdleWalk /\ IdleFile
    /\ args \in IndexArgs
    /\ pc = "entry"
    /\ exits = <<>>
    /\ indexFile = NoFile
    /\ served = <<>>

NextIndex ==
    \/ Entry
    \/ WalkEnd
    \/ WalkEntryError
    \/ WalkSubdir
    \/ WalkFile
    \/ SaveTfIndex
    \/ CheckIndex
    \/ RunSearch

SpecIndex == InitIndex /\ [][NextIndex]_vars

\* ------------------------------------------------------ commands: serve

\* What the client receives: the status code, the body as text and the
\* DocumentIds the body lists.  status 0: serve_request returned without
\* calling respond.
NoResponse == [status |-> 0, text |-> "", docs |-> <<>>]

\* serve_request (with serve_static_file and serve_404) on one request:
\* fileOpens: File::open of the static file succeeds; responds:
\* request.respond succeeds.
ServeRequestOf(req, fileOpens, responds) ==
    IF req.method = "POST" /\ req.url = "/api/search"
    THEN IF ~req.body.utf8
         THEN [response |-> NoResponse, result |-> "Err"]
         ELSE [response |-> IF responds
                            THEN [status |-> 200, text |-> "ok", docs |-> <<>>]
                            ELSE NoResponse,
               result |-> "Ok"]
    ELSE IF req.method = "GET" /\ req.url \in {"/", "/index.html", "/index.js"}
    THEN IF ~fileOpens
         THEN [response |-> NoResponse, result |-> "Err"]
         ELSE [response |-> IF responds
                            THEN [status |-> 200,
                                  text |-> IF req.url = "/index.js"
                                           THEN "src/index.js" ELSE "src/index.html",
                                  docs |-> <<>>]
                            ELSE NoResponse,
               result |-> "Ok"]
    ELSE IF responds
         THEN [response |-> [status |-> 404, text |-> "404", docs |-> <<>>],
               result |-> "Ok"]
         ELSE [response |-> NoResponse, result |-> "Err"]

\* Request bodies: a query as text, or bytes that are no UTF-8.
Body(text) == [utf8 |-> TRUE, text |-> text]

BadBody == [utf8 |-> FALSE, text |-> <<>>]

\* "", "a", "B", "c", " "
Queries == {Body(<<>>), Body(<<97>>), Body(<<66>>), Body(<<99>>), Body(<<32>>), BadBody}

Requests ==
    {[method |-> "POST", url |-> "/api/search", body |-> b] : b \in Queries}
    \cup {[method |-> m, url |-> u, body |-> Body(<<>>)] :
            m \in {"GET", "POST"}, u \in {"/", "/index.html", "/index.js", "/x"}}
    \cup {[method |-> "GET", url |-> "/api/search", body |-> Body(<<97>>)]}

\* One turn of `for request in server.incoming_requests()`: serve_request,
\* its result dropped.
ServeRequest ==
    /\ pc = "serve"
    /\ Len(served) < MaxRequests
    /\ \E req \in Requests, fileOpens \in BOOLEAN, responds \in BOOLEAN :
         LET r == ServeRequestOf(req, fileOpens, responds) IN
         served' = Append(served, [request |-> req, response |-> r.response,
                                   result |-> r.result])
    /\ UNCHANGED <<lexVars, procVars, walkVars, fileVars>>

\* The index of a corpus of the files d/a, d/b, ... with the given contents.
RECURSIVE IndexOfTexts(_, _)
IndexOfTexts(texts, n) ==
    IF n = 0 THEN EmptyMap
    ELSE Insert(IndexOfTexts(texts, n - 1), RootPath \o <<47, 96 + n>>,
                TermFreqOf(texts[n]))

\* The corpora index.json may hold when the server is started:
\* none; {d/a: "a b", d/b: "a a"}; {d/a: "c", d/b: "b a", d/c: "b"}.
Corpora ==
    { <<>>,
      << <<97, 32, 98>>, <<97, 32, 97>> >>,
      << <<99>>, <<98, 32, 97>>, <<98>> >> }

\* The serve command is started, index.json holding a saved index.
InitServe ==
    /\ IdleLexer /\ IdleWalk /\ IdleFile
    /\ args \in ServeArgs
    /\ pc = "entry"
    /\ exits = <<>>
    /\ \E texts \in Corpora, seed \in Seeds :
         indexFile = [exists |-> TRUE,
                      bytes |-> SerIndex(IndexOfTexts(texts, Len(texts)), seed)]
    /\ served = <<>>

NextServe ==
    \/ Entry
    \/ ServeRequest

SpecServe == InitServe /\ [][NextServe]_vars

\* ------------------------------------------------------- claims: the Lexer

\* The tokens yielded so far, in order.
Tokens == [i \in DOMAIN yielded |-> yielded[i].token]

RECURSIVE Concat(_)
Concat(ss) == IF ss = <<>> THEN <<>> ELSE Head(ss) \o Concat(Tail(ss))

\* s with every whitespace character removed.
StripWs(s) == SelectSeq(s, LAMBDA c : ~IsWhitespace(c))

Chars(s) == {s[i] : i \in DOMAIN s}

Exhausted == retLog # <<>> /\ retLog[Len(retLog)] = "None"

\* C1: at every point of the iteration the tokens yielded so far, followed by
\* the non-whitespace characters still in the content, are the input with
\* its whitespace removed (so once next_token has returned None the
\* concatenated tokens are exactly that), and no token holds a whitespace
\* character.
C1_ConcatIsInputSansWhitespace ==
    /\ Concat(Tokens) \o StripWs(content) = StripWs(input)
    /\ Exhausted => Concat(Tokens) = StripWs(input)
    /\ \A i \in DOMAIN yielded : Chars(yielded[i].token) \cap Whitespace = {}

\* C1 witness: an input with whitespace before and between its tokens has
\* been lexed to the end.
C1_Witness ==
    /\ Exhausted
    /\ Len(yielded) >= 2
    /\ Len(input) >= 1 /\ IsWhitespace(input[1])
    /\ Len(StripWs(input)) + 2 <= Len(input)

\* The token of call i is a run of class P that the next character of the
\* content does not continue.
RunOf(i, P) ==
    /\ Chars(yielded[i].token) \subseteq P
    /\ yielded[i].rest # <<>> => yielded[i].rest[1] \notin P

SingleOther(i) ==
    /\ Len(yielded[i].token) = 1
    /\ yielded[i].token[1] \notin Numeric \cup Alphabetic \cup Whitespace

\* C2 as claimed: every token is non-empty and is a maximal numeric run, a
\* maximal alphabetic run or a single other character, and no token holds
\* both an alphabetic and a numeric character.
C2_Original ==
    \A i \in DOMAIN yielded :
        /\ Len(yielded[i].token) >= 1
        /\ RunOf(i, Numeric) \/ RunOf(i, Alphabetic) \/ SingleOther(i)
        /\ ~(/\ Chars(yielded[i].token) \cap Alphabetic # {}
             /\ Chars(yielded[i].token) \cap Numeric # {})

\* C2 as amended: every token is non-empty and is a numeric run that the next
\* character does not continue, an alphabetic run that the next character
\* does not continue and whose first character is not numeric, or a single
\* character that is neither numeric, alphabetic nor whitespace; no token
\* holds both a character that is alphabetic and not numeric and a character
\* that is numeric and not alphabetic.
C2_TokenShape ==
    \A i \in DOMAIN yielded :
        /\ Len(yielded[i].token) >= 1
        /\ \/ RunOf(i, Numeric)
           \/ RunOf(i, Alphabetic) /\ yielded[i].token[1] \notin Numeric
           \/ SingleOther(i)
        /\ ~(/\ Chars(yielded[i].token) \cap (Alphabetic \ Numeric) # {}
             /\ Chars(yielded[i].token) \cap (Numeric \ Alphabetic) # {})

\* C2 witness: a mixed run was split at the alphabetic/numeric boundary: an
\* alphabetic token directly followed, with no whitespace between, by a
\* numeric token.
C2_Witness ==
    \E i \in DOMAIN yielded :
        /\ i + 1 \in DOMAIN yielded
        /\ Chars(yielded[i].token) \subseteq Alphabetic \ Numeric
        /\ yielded[i].rest = yielded[i + 1].before
        /\ Chars(yielded[i + 1].token) \subseteq Numeric \ Alphabetic
        /\ Len(yielded[i + 1].token) + Len(yielded[i + 1].rest)
               = Len(yielded[i].rest)

\* C9: a call that returns a token strictly shortens the content; at most
\* Len(input) calls return a token; when a call returns None the content is
\* empty and every later call returns None; an empty or all-whitespace input
\* gives None on the first call.
C9_Terminates ==
    /\ \A i \in DOMAIN yielded : Len(yielded[i].rest) < Len(yielded[i].before)
    /\ Len(yielded) <= Len(input)
    /\ Exhausted => content = <<>>
    /\ \A i, j \in DOMAIN retLog : (i < j /\ retLog[i] = "None") => retLog[j] = "None"
    /\ (StripWs(input) = <<>> /\ retLog # <<>>) => retLog[1] = "None"

\* C9 witness: several tokens were yielded, then None, then None again.
C9_Witness ==
    /\ Len(yielded) >= 2
    /\ NoneCount >= 2

\* ----------------------------------------------- claims: the index build

Indexed == DOMAIN tf_index

\* C3: the counts of every document of the index add up to the number of
\* tokens the Lexer yields on the text extracted from that document.
C3_CountsSumToTokenCount ==
    \A d \in Indexed :
        /\ d \in DOMAIN extracted
        /\ SumValues(tf_index[d]) = Len(LexAll(extracted[d]))

\* C3 witness: an indexed document with at least three terms, one of them
\* counted more than once.
C3_Witness ==
    \E d \in Indexed :
        /\ Cardinality(DOMAIN tf_index[d]) >= 3
        /\ \E term \in DOMAIN tf_index[d] : tf_index[d][term] >= 2

\* C4: the index holds exactly the files whose extraction succeeded and none
\* of the files it failed on, each under the table of its own text; a walk
\* returns Err only when enumerating a directory failed, never because an
\* extraction failed.
C4_ExtractionFailureSkipsDocument ==
    /\ Indexed = DOMAIN extracted
    /\ Indexed \cap skipped = {}
    /\ \A d \in Indexed \cap DOMAIN extracted :
           tf_index[d] = CountAll(EmptyMap, LexAll(extracted[d]))
    /\ walkRes = "Err" => enumFailed

\* C4 witness: the walk has ended with Ok, its first file was skipped and the
\* file after that one is in the index.
C4_Witness ==
    /\ walkRes = "Ok"
    /\ RootPath \o <<47>> \o NameOf(1) \in skipped
    /\ RootPath \o <<47>> \o NameOf(2) \in Indexed

\* C5 as claimed: index.json is written only by a build whose walk visited
\* the whole corpus, that is, whose tf_index_of_folder returned Ok.
C5_NoPartialIndexSaved ==
    (saveRes = "Ok" \/ indexFile.exists) => walkRes = "Ok"

\* C6 as claimed: a process whose save_tf_index or check_index returned Err
\* ends with ExitCode::FAILURE.
C6_PersistenceFailureFailsCommand ==
    (/\ pc = "exited"
     /\ args # <<>>
     /\ \/ args[1] = "index" /\ saveRes = "Err"
        \/ args[1] = "search" /\ loadRes = "Err")
    => exits[Len(exits)] = "FAILURE"

\* C7: the file a successful save_tf_index leaves deserializes to the index
\* that was saved, under either iteration order; and when check_index then
\* loads it, the mapping it obtains equals the saved one: the same
\* documents, the same terms per document, the same count per term.
C7_RoundTrip ==
    /\ saveRes = "Ok" =>
         /\ indexFile.exists
         /\ ParseIndex(indexFile.bytes) = [ok |-> TRUE, val |-> tf_index]
    /\ (saveRes = "Ok" /\ loadRes = "Ok") =>
         /\ DOMAIN loaded = DOMAIN tf_index
         /\ \A d \in DOMAIN loaded :
              /\ DOMAIN loaded[d] = DOMAIN tf_index[d]
              /\ \A term \in DOMAIN loaded[d] : loaded[d][term] = tf_index[d][term]

\* C7 witness: an index of two documents, one path and one term holding a
\* '"', written in the other key order than the canonical one, was loaded.
C7_Witness ==
    /\ saveRes = "Ok" /\ loadRes = "Ok"
    /\ Cardinality(DOMAIN loaded) >= 2
    /\ \E d \in DOMAIN loaded : 34 \in Chars(d) /\ <<34>> \in DOMAIN loaded[d]
    /\ indexFile.bytes # SerIndex(tf_index, 0)

\* The lowercase letters among the code points of the model: 'a'..'z', 'é'.
Lowercase == (97..122) \cup {233}

\* char::to_uppercase on the code points of the model.
Upper(c) == IF c \in 97..122 THEN c - 32 ELSE IF c = 233 THEN 201 ELSE c

UpperStr(s) == [i \in DOMAIN s |-> Upper(s[i])]

\* s with its ASCII letters in upper case.
UpperAscii(s) == [i \in DOMAIN s |-> IF s[i] \in 97..122 THEN s[i] - 32 ELSE s[i]]

TokenSet(d) == LET ts == LexAll(extracted[d]) IN {ts[i] : i \in DOMAIN ts}

\* C10 as claimed: no key of a table holds a lowercase letter, and tokens of
\* a document that differ only in letter case are counted under one key (no
\* two keys of a table differ only in letter case).
C10_Original ==
    \A d \in Indexed :
        /\ \A term \in DOMAIN tf_index[d] : Chars(term) \cap Lowercase = {}
        /\ \A k1, k2 \in DOMAIN tf_index[d] : UpperStr(k1) = UpperStr(k2) => k1 = k2

\* C10 as amended: the keys of a document's table are the tokens of its text
\* with their ASCII letters upper-cased; no key holds an ASCII lowercase
\* letter, and no two keys differ only in the case of ASCII letters.
C10_AsciiUppercaseTerms ==
    \A d \in Indexed :
        /\ DOMAIN tf_index[d] = {UpperAscii(tok) : tok \in TokenSet(d)}
        /\ \A term \in DOMAIN tf_index[d] : Chars(term) \cap (97..122) = {}
        /\ \A k1, k2 \in DOMAIN tf_index[d] : UpperAscii(k1) = UpperAscii(k2) => k1 = k2

\* C10 witness: a document with the tokens "a" and "A", both counted under "A".
C10_Witness ==
    \E d \in Indexed :
        /\ {<<97>>, <<65>>} \subseteq TokenSet(d)
        /\ <<65>> \in DOMAIN tf_index[d]
        /\ tf_index[d][<<65>>] = 2

\* --------------------------------------------------- claims: the search API

RECURSIVE LexLess(_, _)
\* a before b in lexical order.
LexLess(a, b) ==
    IF b = <<>> THEN FALSE
    ELSE IF a = <<>> THEN TRUE
    ELSE IF Head(a) # Head(b) THEN Head(a) < Head(b)
    ELSE LexLess(Tail(a), Tail(b))

\* The query as Terms: tokenized and normalized as for indexing.
QueryTerms(text) == LET ts == LexAll(text) IN [i \in DOMAIN ts |-> UpperAscii(ts[i])]

CountIn(tf, term) == IF term \in DOMAIN tf THEN tf[term] ELSE 0

\* For a query of one term: tf(term, d1) * idf(term) > tf(term, d2) * idf(term),
\* decided in integers: idf = ln(N / df) is positive exactly when
\* 0 < df < N, and count1/total1 > count2/total2 is cross-multiplied.
ScoreAbove(index, term, d1, d2) ==
    LET df == Cardinality({d \in DOMAIN index : term \in DOMAIN index[d]})
        c1 == CountIn(index[d1], term)
        c2 == CountIn(index[d2], term)
        t1 == SumValues(index[d1])
        t2 == SumValues(index[d2])
    IN /\ 0 < df /\ df < Cardinality(DOMAIN index)
       /\ c1 > 0
       /\ c2 = 0 \/ c1 * t2 > c2 * t1

\* d1 is listed before d2: a higher score, or the same score and the
\* smaller DocumentId.
ListedBefore(index, term, d1, d2) ==
    \/ ScoreAbove(index, term, d1, d2)
    \/ ~ScoreAbove(index, term, d2, d1) /\ LexLess(d1, d2)

RECURSIVE RankSet(_, _, _)
RankSet(index, term, docs) ==
    IF docs = {} THEN <<>>
    ELSE LET first == CHOOSE d \in docs :
                        \A e \in docs \ {d} : ListedBefore(index, term, d, e)
         IN <<first>> \o RankSet(index, term, docs \ {first})

\* The ranked list for a query of at most one term.
Ranked(index, terms) ==
    IF terms = <<>> THEN <<>> ELSE RankSet(index, terms[1], DOMAIN index)

\* C8 as claimed: every answer to a search request lists the documents of
\* the index in index.json by descending TF-IDF score of the query, ties in
\* ascending DocumentId order, and lists none for an empty query or index.
C8_SearchAnswersRanking ==
    \A i \in DOMAIN served :
        LET req == served[i].request IN
        (/\ req.method = "POST" /\ req.url = "/api/search" /\ req.body.utf8
         /\ Len(QueryTerms(req.body.text)) <= 1
         /\ served[i].response.status = 200)
        => served[i].response.docs =
               Ranked(ParseIndex(indexFile.bytes).val, QueryTerms(req.body.text))

====
